---- MODULE Spec2Model ----
(***************************************************************************)
(* Dungeon Quest: the combat engine of src/dungeon_quest.                  *)
(*                                                                         *)
(* Stats, StatusEffect, Skill and Item (stats.py) are records; the methods *)
(* of Stats, Entity and Player are operators that return the mutated       *)
(* object(s) together with the method's return value.  CombatSystem        *)
(* .run_combat (combat.py) is a state machine whose pc is the position in  *)
(* the loop; every input() and every random draw is an input of an action. *)
(*                                                                         *)
(* Numbers: a float factor is carried as an integer numerator.  A skill's  *)
(* power p is power10 = 10 * p, a variance draw u is the percentage        *)
(* 100 * u.  int(x * p) of a non-negative product is its floor, so         *)
(* int(a * p) = (a * power10) \div 10 and int(x * u) = (x * m) \div 100;   *)
(* for the values used here the float products round the same way.         *)
(***************************************************************************)
EXTENDS Integers, Sequences, FiniteSets, TLC

VARIABLES
    player,     \* CombatSystem.player: [stats, inventory, skills, gold]
    enemy,      \* CombatSystem.enemy: [stats, exp_reward, gold_reward]
    turn,       \* CombatSystem.turn
    pc,         \* position in run_combat
    choice,     \* the action of the current loop iteration (the main-menu input)
    input,      \* the line last read at a prompt that takes free text
    draw,       \* the last random draw, in percent
    result,     \* run_combat's return value: "None" while it runs
    start,      \* the player and enemy run_combat was started with
    stun,       \* per combatant: duration of the Stun applied, phases skipped
    s,          \* a Stats object driven call by call
    call        \* the last call made on s: [op, arg, ret, damage_calls]

vars == <<player, enemy, turn, pc, choice, input, draw, result, start, stun, s, call>>

combat_vars == <<player, enemy, turn, pc, choice, input, draw, result, start, stun>>

stats_vars == <<s, call>>

Max(a, b) == IF a >= b THEN a ELSE b

Min(a, b) == IF a <= b THEN a ELSE b

(***************************************************************************)
(* stats.py: the dataclasses                                               *)
(***************************************************************************)
StatusEffect(name, effect_type, stat_affected, power, duration) ==
    [name |-> name, effect_type |-> effect_type, stat_affected |-> stat_affected,
     power |-> power, duration |-> duration]

Stats(hp, max_hp, mp, max_mp, attack, speed, level, exp, status_effects) ==
    [hp |-> hp, max_hp |-> max_hp, mp |-> mp, max_mp |-> max_mp,
     attack |-> attack, speed |-> speed, level |-> level, exp |-> exp,
     status_effects |-> status_effects]

\* power10 is 10 * Skill.power; status_effect "" is Python's None
Skill(name, mp_cost, skill_type, power10, duration, status_effect) ==
    [name |-> name, mp_cost |-> mp_cost, skill_type |-> skill_type,
     power10 |-> power10, duration |-> duration, status_effect |-> status_effect]

\* effect is the dict as a set of <<key, value>> pairs; {} is an empty or absent dict
Item(name, item_type, effect) ==
    [name |-> name, item_type |-> item_type, effect |-> effect]

(***************************************************************************)
(* stats.py: Stats methods                                                 *)
(***************************************************************************)
HasEffectNamed(st, name) ==
    \E i \in 1..Len(st.status_effects) : st.status_effects[i].name = name

FirstEffectNamed(st, name) ==
    CHOOSE i \in 1..Len(st.status_effects) :
        /\ st.status_effects[i].name = name
        /\ \A j \in 1..(i - 1) : st.status_effects[j].name # name

\* add_status_effect without the name check of lines 51-58
add_status_effect_always_appends(st, effect) ==
    [st EXCEPT !.status_effects = Append(st.status_effects, effect)]

\* add_status_effect without line 57: a repeated DOT only refreshes its duration
add_status_effect_without_stacking(st, effect) ==
    IF HasEffectNamed(st, effect.name)
    THEN LET i == FirstEffectNamed(st, effect.name)
             existing == st.status_effects[i]
         IN [st EXCEPT !.status_effects[i].duration =
                           Max(existing.duration, effect.duration)]
    ELSE [st EXCEPT !.status_effects = Append(st.status_effects, effect)]

\* add_status_effect without the test of line 56: every repeated effect stacks
add_status_effect_stacks_every_type(st, effect) ==
    IF HasEffectNamed(st, effect.name)
    THEN LET i == FirstEffectNamed(st, effect.name)
             existing == st.status_effects[i]
             merged == [existing EXCEPT
                          !.duration = Max(existing.duration, effect.duration),
                          !.power = existing.power + effect.power]
         IN [st EXCEPT !.status_effects[i] = merged]
    ELSE [st EXCEPT !.status_effects = Append(st.status_effects, effect)]

add_status_effect(st, effect) ==
    IF HasEffectNamed(st, effect.name)
    THEN LET i == FirstEffectNamed(st, effect.name)
             existing == st.status_effects[i]
             merged == [existing EXCEPT
                          !.duration = Max(existing.duration, effect.duration),
                          !.power = IF effect.effect_type = "damage_over_time"
                                    THEN existing.power + effect.power
                                    ELSE existing.power]
         IN [st EXCEPT !.status_effects[i] = merged]
    ELSE [st EXCEPT !.status_effects = Append(st.status_effects, effect)]

remove_status_effect(st, effect_name) ==
    [st EXCEPT !.status_effects =
        SelectSeq(st.status_effects, LAMBDA e : e.name # effect_name)]

RECURSIVE SumModifiers(_, _, _)
SumModifiers(effects, stat_name, i) ==
    IF i > Len(effects) THEN 0
    ELSE (IF effects[i].effect_type = "stat_mod" /\ effects[i].stat_affected = stat_name
          THEN effects[i].power ELSE 0)
         + SumModifiers(effects, stat_name, i + 1)

get_stat_modifier(st, stat_name) == SumModifiers(st.status_effects, stat_name, 1)

\* get_effective_attack without the floor of line 77
get_effective_attack_without_floor(st) == st.attack + get_stat_modifier(st, "attack")

get_effective_attack(st) == Max(1, st.attack + get_stat_modifier(st, "attack"))

get_effective_speed(st) == Max(1, st.speed + get_stat_modifier(st, "speed"))

is_stunned(st) ==
    \E i \in 1..Len(st.status_effects) : st.status_effects[i].effect_type = "stun"

is_alive(st) == st.hp > 0

\* take_damage without the floor of line 130
take_damage_without_floor(st, damage) ==
    [stats |-> [st EXCEPT !.hp = Max(0, st.hp - damage)], ret |-> damage]

take_damage(st, damage) ==
    LET actual_damage == Max(1, damage)
    IN [stats |-> [st EXCEPT !.hp = Max(0, st.hp - actual_damage)],
        ret |-> actual_damage]

\* heal without the clamp of line 136
heal_without_clamp(st, amount) ==
    [stats |-> [st EXCEPT !.hp = st.hp + amount], ret |-> Max(1, amount)]

heal(st, amount) ==
    LET actual_heal == Max(1, amount)
    IN [stats |-> [st EXCEPT !.hp = Min(st.max_hp, st.hp + amount)],
        ret |-> actual_heal]

\* use_mp that needs more than the cost
use_mp_needs_more_than_cost(st, amount) ==
    IF st.mp > amount
    THEN [stats |-> [st EXCEPT !.mp = st.mp - amount], ret |-> TRUE]
    ELSE [stats |-> st, ret |-> FALSE]

\* use_mp that spends what there is and never fails
use_mp_always_succeeds(st, amount) ==
    [stats |-> [st EXCEPT !.mp = Max(0, st.mp - amount)], ret |-> TRUE]

use_mp(st, amount) ==
    IF st.mp >= amount
    THEN [stats |-> [st EXCEPT !.mp = st.mp - amount], ret |-> TRUE]
    ELSE [stats |-> st, ret |-> FALSE]

\* restore_mp without the clamp of line 153
restore_mp_without_clamp(st, amount) == [st EXCEPT !.mp = st.mp + amount]

restore_mp(st, amount) == [st EXCEPT !.mp = Min(st.max_mp, st.mp + amount)]

\* StatusEffect.tick: the aged effect; it is still active iff its duration > 0
tick(effect) == [effect EXCEPT !.duration = effect.duration - 1]

(***************************************************************************)
(* The pass of tick_status_effects over the list, from index i on.  acc    *)
(* carries the Stats, the messages, the names to remove, and one record    *)
(* per take_damage call the pass has made (hp before, argument, hp after,  *)
(* returned value).                                                        *)
(***************************************************************************)
RECURSIVE TickPass(_, _)
TickPass(acc, i) ==
    IF i > Len(acc.stats.status_effects) THEN acc
    ELSE LET effect == acc.stats.status_effects[i]
             is_dot == effect.effect_type = "damage_over_time"
             dmg == take_damage(acc.stats, effect.power)
             st1 == IF is_dot THEN dmg.stats ELSE acc.stats
             aged == tick(effect)
             expired == ~(aged.duration > 0)
         IN TickPass(
              [stats |-> [st1 EXCEPT !.status_effects[i] = aged],
               messages |-> acc.messages
                   \o (IF is_dot
                       THEN <<[kind |-> "dot", name |-> effect.name, damage |-> dmg.ret]>>
                       ELSE <<>>)
                   \o (IF expired
                       THEN <<[kind |-> "wore_off", name |-> effect.name, damage |-> 0]>>
                       ELSE <<>>),
               effects_to_remove |-> acc.effects_to_remove
                   \o (IF expired THEN <<effect.name>> ELSE <<>>),
               damage_calls |-> acc.damage_calls
                   \o (IF is_dot
                       THEN <<[hp |-> acc.stats.hp, damage |-> effect.power,
                               after |-> dmg.stats.hp, ret |-> dmg.ret]>>
                       ELSE <<>>)],
              i + 1)

RECURSIVE RemoveAll(_, _, _)
RemoveAll(st, names, i) ==
    IF i > Len(names) THEN st
    ELSE RemoveAll(remove_status_effect(st, names[i]), names, i + 1)

TickRun(st) ==
    TickPass([stats |-> st, messages |-> <<>>, effects_to_remove |-> <<>>,
              damage_calls |-> <<>>], 1)

tick_status_effects(st) ==
    LET run == TickRun(st)
    IN [stats |-> RemoveAll(run.stats, run.effects_to_remove, 1),
        ret |-> run.messages,
        damage_calls |-> run.damage_calls]

(***************************************************************************)
(* entities.py: Entity.basic_attack.  m is 100 * random.uniform(0.8, 1.2). *)
(***************************************************************************)
basic_attack(attacker, target, m) ==
    LET effective_attack == get_effective_attack(attacker)
        damage == (effective_attack * m) \div 100
        hit == take_damage(target, damage)
    IN [target |-> hit.stats, ret |-> hit.ret]

(***************************************************************************)
(* player.py: Player.gain_exp, level_up, use_item, use_skill               *)
(***************************************************************************)
\* level_up that restores the pools to their size before the growth
level_up_restores_old_max(st) ==
    [st EXCEPT !.level = st.level + 1,
               !.max_hp = st.max_hp + (st.max_hp \div 10),
               !.max_mp = st.max_mp + (st.max_mp \div 10),
               !.hp = st.max_hp,
               !.mp = st.max_mp,
               !.attack = st.attack + (st.attack \div 10),
               !.speed = st.speed + 1]

level_up(st) ==
    LET max_hp == st.max_hp + (st.max_hp \div 10)
        max_mp == st.max_mp + (st.max_mp \div 10)
    IN [st EXCEPT !.level = st.level + 1,
                  !.max_hp = max_hp,
                  !.max_mp = max_mp,
                  !.hp = max_hp,
                  !.mp = max_mp,
                  !.attack = st.attack + (st.attack \div 10),
                  !.speed = st.speed + 1]

\* gain_exp that levels up again while the exp reaches the next threshold
gain_exp_levels_while_enough(st, exp) ==
    LET st1 == [st EXCEPT !.exp = st.exp + exp]
        st2 == level_up(st1)
    IN IF st1.exp >= st1.level * 100
       THEN IF st2.exp >= st2.level * 100 THEN level_up(st2) ELSE st2
       ELSE st1

\* gain_exp with > in place of the >= of line 46
gain_exp_above_threshold_only(st, exp) ==
    LET st1 == [st EXCEPT !.exp = st.exp + exp]
        exp_needed == st1.level * 100
    IN IF st1.exp > exp_needed THEN level_up(st1) ELSE st1

gain_exp(st, exp) ==
    LET st1 == [st EXCEPT !.exp = st.exp + exp]
        exp_needed == st1.level * 100
    IN IF st1.exp >= exp_needed THEN level_up(st1) ELSE st1

HasKey(effect, key) == \E kv \in effect : kv[1] = key

ValueOf(effect, key) == (CHOOSE kv \in effect : kv[1] = key)[2]

RemoveAt(seq, i) == SubSeq(seq, 1, i - 1) \o SubSeq(seq, i + 1, Len(seq))

\* list.remove(item): the first element equal to item (dataclass equality)
ListRemove(seq, item) ==
    RemoveAt(seq, CHOOSE i \in 1..Len(seq) :
                      seq[i] = item /\ \A j \in 1..(i - 1) : seq[j] # item)

\* str.lower, character by character: the upper-case letters of ASCII and
\* Latin-1 and their lower-case forms; every other character stays
LowerCase ==
    ("A" :> "a") @@ ("B" :> "b") @@ ("C" :> "c") @@ ("D" :> "d") @@ ("E" :> "e") @@ ("F" :> "f")
    @@ ("G" :> "g") @@ ("H" :> "h") @@ ("I" :> "i") @@ ("J" :> "j") @@ ("K" :> "k") @@ ("L" :> "l")
    @@ ("M" :> "m") @@ ("N" :> "n") @@ ("O" :> "o") @@ ("P" :> "p") @@ ("Q" :> "q") @@ ("R" :> "r")
    @@ ("S" :> "s") @@ ("T" :> "t") @@ ("U" :> "u") @@ ("V" :> "v") @@ ("W" :> "w") @@ ("X" :> "x")
    @@ ("Y" :> "y") @@ ("Z" :> "z") @@ ("À" :> "à") @@ ("Á" :> "á") @@ ("Â" :> "â") @@ ("Ã" :> "ã")
    @@ ("Ä" :> "ä") @@ ("Å" :> "å") @@ ("Æ" :> "æ") @@ ("Ç" :> "ç") @@ ("È" :> "è") @@ ("É" :> "é")
    @@ ("Ê" :> "ê") @@ ("Ë" :> "ë") @@ ("Ì" :> "ì") @@ ("Í" :> "í") @@ ("Î" :> "î") @@ ("Ï" :> "ï")
    @@ ("Ð" :> "ð") @@ ("Ñ" :> "ñ") @@ ("Ò" :> "ò") @@ ("Ó" :> "ó") @@ ("Ô" :> "ô") @@ ("Õ" :> "õ")
    @@ ("Ö" :> "ö") @@ ("Ø" :> "ø") @@ ("Ù" :> "ù") @@ ("Ú" :> "ú") @@ ("Û" :> "û") @@ ("Ü" :> "ü")
    @@ ("Ý" :> "ý") @@ ("Þ" :> "þ")

RECURSIVE lower(_)
lower(name) ==
    IF name = "" THEN ""
    ELSE (IF Head(name) \in DOMAIN LowerCase THEN LowerCase[Head(name)] ELSE Head(name))
         \o lower(Tail(name))

\* add_item, lines 61-63
add_item(p, item) == [p EXCEPT !.inventory = Append(p.inventory, item)]

\* p is the player; ret is "None" or the kind of message returned
use_item(p, item_name) ==
    IF \E i \in 1..Len(p.inventory) : lower(p.inventory[i].name) = lower(item_name)
    THEN LET i == CHOOSE k \in 1..Len(p.inventory) :
                      /\ lower(p.inventory[k].name) = lower(item_name)
                      /\ \A j \in 1..(k - 1) :
                            lower(p.inventory[j].name) # lower(item_name)
             item == p.inventory[i]
         IN IF item.effect # {} /\ HasKey(item.effect, "hp")
            THEN [player |-> [p EXCEPT
                                !.stats = heal(p.stats, ValueOf(item.effect, "hp")).stats,
                                !.inventory = ListRemove(p.inventory, item)],
                  ret |-> "restored_hp"]
            ELSE IF item.effect # {} /\ HasKey(item.effect, "mp")
            THEN [player |-> [p EXCEPT
                                !.stats = restore_mp(p.stats, ValueOf(item.effect, "mp")),
                                !.inventory = ListRemove(p.inventory, item)],
                  ret |-> "restored_mp"]
            ELSE [player |-> p, ret |-> "used"]
    ELSE [player |-> p, ret |-> "None"]

\* int(self.stats.attack * skill.power)
effect_amount(caster, skill) == (caster.attack * skill.power10) \div 10

\* use_skill with the buff of line 115 applied to the target
use_skill_buff_on_target(caster, target, skill, m) ==
    LET paid == use_mp(caster, skill.mp_cost)
        c1 == paid.stats
        amount == effect_amount(c1, skill)
    IN IF ~paid.ret
       THEN [caster |-> c1, target |-> target, damage |-> 0, none |-> TRUE]
       ELSE CASE skill.skill_type = "damage" ->
                   LET hit == take_damage(target, (amount * m) \div 100)
                   IN [caster |-> c1, target |-> hit.stats, damage |-> hit.ret,
                       none |-> FALSE]
              [] skill.skill_type = "heal" ->
                   [caster |-> c1, target |-> heal(target, amount).stats,
                    damage |-> 0, none |-> FALSE]
              [] skill.skill_type = "buff" ->
                   [caster |-> c1,
                    target |-> add_status_effect(target,
                                  StatusEffect(skill.name, "stat_mod", "attack",
                                               Max(1, amount), skill.duration)),
                    damage |-> 0, none |-> FALSE]
              [] skill.skill_type = "debuff" ->
                   [caster |-> c1,
                    target |-> add_status_effect(target,
                                  StatusEffect(skill.name, "stat_mod", "attack",
                                               0 - Max(1, amount), skill.duration)),
                    damage |-> 0, none |-> FALSE]
              [] skill.skill_type = "dot" ->
                   [caster |-> c1,
                    target |-> add_status_effect(target,
                                  StatusEffect(IF skill.status_effect # ""
                                               THEN skill.status_effect ELSE skill.name,
                                               "damage_over_time", "",
                                               Max(1, amount), skill.duration)),
                    damage |-> 0, none |-> FALSE]
              [] skill.skill_type = "stun" ->
                   [caster |-> c1,
                    target |-> add_status_effect(target,
                                  StatusEffect("Stunned", "stun", "", 0, skill.duration)),
                    damage |-> 0, none |-> FALSE]
              [] OTHER ->
                   [caster |-> c1, target |-> target, damage |-> 0, none |-> TRUE]

\* m is 100 * random.uniform(0.9, 1.1), read by a damage skill only.
\* none is TRUE when the returned damage is None; damage is then 0.
use_skill(caster, target, skill, m) ==
    LET paid == use_mp(caster, skill.mp_cost)
        c1 == paid.stats
        amount == effect_amount(c1, skill)
    IN IF ~paid.ret
       THEN [caster |-> c1, target |-> target, damage |-> 0, none |-> TRUE]
       ELSE CASE skill.skill_type = "damage" ->
                   LET hit == take_damage(target, (amount * m) \div 100)
                   IN [caster |-> c1, target |-> hit.stats, damage |-> hit.ret,
                       none |-> FALSE]
              [] skill.skill_type = "heal" ->
                   [caster |-> c1, target |-> heal(target, amount).stats,
                    damage |-> 0, none |-> FALSE]
              [] skill.skill_type = "buff" ->
                   [caster |-> add_status_effect(c1,
                                  StatusEffect(skill.name, "stat_mod", "attack",
                                               Max(1, amount), skill.duration)),
                    target |-> target, damage |-> 0, none |-> FALSE]
              [] skill.skill_type = "debuff" ->
                   [caster |-> c1,
                    target |-> add_status_effect(target,
                                  StatusEffect(skill.name, "stat_mod", "attack",
                                               0 - Max(1, amount), skill.duration)),
                    damage |-> 0, none |-> FALSE]
              [] skill.skill_type = "dot" ->
                   [caster |-> c1,
                    target |-> add_status_effect(target,
                                  StatusEffect(IF skill.status_effect # ""
                                               THEN skill.status_effect ELSE skill.name,
                                               "damage_over_time", "",
                                               Max(1, amount), skill.duration)),
                    damage |-> 0, none |-> FALSE]
              [] skill.skill_type = "stun" ->
                   [caster |-> c1,
                    target |-> add_status_effect(target,
                                  StatusEffect("Stunned", "stun", "", 0, skill.duration)),
                    damage |-> 0, none |-> FALSE]
              [] OTHER ->
                   [caster |-> c1, target |-> target, damage |-> 0, none |-> TRUE]

(***************************************************************************)
(* A Stats object driven call by call, as a combatant's Stats is driven by *)
(* skills (add_status_effect), by attacks (take_damage) and by the         *)
(* end-of-turn tick (tick_status_effects).  No method tests hp before it   *)
(* acts: each call is possible at hp 0 as well.                            *)
(***************************************************************************)
StatsMaxHp == 4

MaxAmount == 3

MaxDuration == 2

MaxPower == 3

Amounts == (0 - 2)..MaxAmount

EffectNames == {"Poison", "Burn", "Stunned"}

\* the effects use_skill builds: two DOT names and the stun
EffectInputs ==
    {StatusEffect(n, "damage_over_time", "", p, d) :
        n \in {"Poison", "Burn"}, p \in 1..2, d \in 1..MaxDuration}
    \cup {StatusEffect("Stunned", "stun", "", 0, d) : d \in 1..MaxDuration}

NoEffect == StatusEffect("", "", "", 0, 0)

NoCall == [op |-> "init", effect |-> NoEffect, amount |-> 0, ret |-> 0,
           damage_calls |-> <<>>]

StatsInit ==
    /\ s \in {Stats(hp, StatsMaxHp, 0, 0, 1, 1, 1, 0, <<>>) : hp \in 1..StatsMaxHp}
    /\ call = NoCall

\* the accumulated power of a DOT stays within MaxPower
AddStatusEffect(effect) ==
    /\ \A i \in 1..Len(s.status_effects) :
          s.status_effects[i].name = effect.name
             => s.status_effects[i].power + effect.power <= MaxPower
    /\ s' = add_status_effect(s, effect)
    /\ call' = [NoCall EXCEPT !.op = "add_status_effect", !.effect = effect]
    /\ UNCHANGED combat_vars

RemoveStatusEffect(name) ==
    /\ s' = remove_status_effect(s, name)
    /\ call' = [NoCall EXCEPT !.op = "remove_status_effect", !.effect.name = name]
    /\ UNCHANGED combat_vars

TickStatusEffects ==
    /\ LET r == tick_status_effects(s)
       IN /\ s' = r.stats
          /\ call' = [NoCall EXCEPT !.op = "tick_status_effects",
                                    !.ret = Len(r.ret),
                                    !.damage_calls = r.damage_calls]
    /\ UNCHANGED combat_vars

TakeDamage(amount) ==
    /\ LET r == take_damage(s, amount)
       IN /\ s' = r.stats
          /\ call' = [NoCall EXCEPT !.op = "take_damage", !.amount = amount,
                                    !.ret = r.ret,
                                    !.damage_calls =
                                        <<[hp |-> s.hp, damage |-> amount,
                                           after |-> r.stats.hp, ret |-> r.ret]>>]
    /\ UNCHANGED combat_vars

StatsNext ==
    \/ \E effect \in EffectInputs : AddStatusEffect(effect)
    \/ \E name \in EffectNames : RemoveStatusEffect(name)
    \/ TickStatusEffects
    \/ \E amount \in Amounts : TakeDamage(amount)

(***************************************************************************)
(* A Stats object driven by add_status_effect and the end-of-turn tick     *)
(* alone, with every effect a skill can build: those of EffectInputs and   *)
(* those of a skill declared without a duration (Skill.duration defaults   *)
(* to 0, stats.py 163).                                                    *)
(***************************************************************************)
DefaultDurationInputs ==
    {StatusEffect(n, "damage_over_time", "", 1, 0) : n \in {"Poison", "Burn"}}
    \cup {StatusEffect("Stunned", "stun", "", 0, 0)}

TickNext ==
    \/ \E effect \in EffectInputs \cup DefaultDurationInputs : AddStatusEffect(effect)
    \/ TickStatusEffects

(***************************************************************************)
(* A Stats object under stat_mod effects: the buff and the debuff that     *)
(* use_skill builds on "attack" (player.py 105-131, named after the skill) *)
(* and a stat_mod on "speed", added and aged by the tick.                  *)
(***************************************************************************)
ModifierInputs ==
    {StatusEffect("Battle Cry", "stat_mod", "attack", p, d) :
        p \in {1, MaxPower}, d \in 1..MaxDuration}
    \cup {StatusEffect("Weaken", "stat_mod", "attack", 0 - p, d) :
        p \in {1, MaxPower}, d \in 1..MaxDuration}
    \cup {StatusEffect("Slow", "stat_mod", "speed", 0 - p, d) :
        p \in {1, MaxPower}, d \in 1..MaxDuration}

ModifierInit ==
    /\ s \in {Stats(StatsMaxHp, StatsMaxHp, 0, 0, attack, speed, 1, 0, <<>>) :
                attack \in 1..MaxPower, speed \in 1..2}
    /\ call = NoCall

ModifierNext ==
    \/ \E effect \in ModifierInputs : AddStatusEffect(effect)
    \/ TickStatusEffects

(***************************************************************************)
(* A Stats object under the effects that are refreshed, not stacked, when  *)
(* cast again: the buff and the debuff on "attack" and the stun            *)
(* (stats.py 51-58 with effect_type other than damage_over_time).          *)
(***************************************************************************)
RefreshInputs ==
    {StatusEffect("Battle Cry", "stat_mod", "attack", p, d) :
        p \in {1, MaxPower - 1}, d \in 1..MaxDuration}
    \cup {StatusEffect("Weaken", "stat_mod", "attack", 0 - p, d) :
        p \in {1, MaxPower}, d \in 1..MaxDuration}
    \cup {StatusEffect("Stunned", "stun", "", 0, d) : d \in 1..MaxDuration}

RefreshInit ==
    /\ s = Stats(StatsMaxHp, StatsMaxHp, 0, 0, MaxPower, 1, 1, 0, <<>>)
    /\ call = NoCall

RefreshNext ==
    \/ \E effect \in RefreshInputs : AddStatusEffect(effect)
    \/ TickStatusEffects

(***************************************************************************)
(* The resource pools of a Stats object driven call by call by heal,       *)
(* use_mp and restore_mp, with amounts that a potion (game.py 84-85), a    *)
(* skill cost or a caller can pass.  The guards keep the explored pools    *)
(* within MaxAmount of their range.                                        *)
(***************************************************************************)
PoolAmounts == Amounts \cup {40, 100}

PoolInit ==
    /\ s \in {Stats(hp, 50, mp, 6, 12, 3, 1, 0, <<>>) : hp \in {10, 50}, mp \in {0, 3, 6}}
    /\ call = NoCall

Heal(amount) ==
    /\ s.hp + amount >= 0 - MaxAmount
    /\ LET r == heal(s, amount)
       IN /\ s' = r.stats
          /\ call' = [NoCall EXCEPT !.op = "heal", !.amount = amount, !.ret = r.ret]
    /\ UNCHANGED combat_vars

\* call.ret holds the returned bool as Python's integer: True is 1, False is 0
UseMp(amount) ==
    /\ s.mp - amount <= s.max_mp + MaxAmount
    /\ LET r == use_mp(s, amount)
       IN /\ s' = r.stats
          /\ call' = [NoCall EXCEPT !.op = "use_mp", !.amount = amount,
                                    !.ret = IF r.ret THEN 1 ELSE 0]
    /\ UNCHANGED combat_vars

RestoreMp(amount) ==
    /\ s.mp + amount >= 0 - MaxAmount
    /\ s' = restore_mp(s, amount)
    /\ call' = [NoCall EXCEPT !.op = "restore_mp", !.amount = amount]
    /\ UNCHANGED combat_vars

PoolNext ==
    \/ \E amount \in PoolAmounts : Heal(amount)
    \/ \E amount \in Amounts : UseMp(amount)
    \/ \E amount \in PoolAmounts : RestoreMp(amount)

(***************************************************************************)
(* A player's Stats driven by gain_exp, from the four classes of player.py *)
(* (165-325), fresh or worn down, and from a small Stats whose tenths are  *)
(* 0; the grants are the rewards of enemy.py, the first threshold and a    *)
(* grant that passes two thresholds.                                       *)
(***************************************************************************)
MaxExp == 300

ExpAmounts == {0, 20, 30, 50, 75, 100, 250}

ClassStats ==
    {Stats(120, 120, 30, 30, 18, 8, 1, 0, <<>>), Stats(80, 80, 60, 60, 12, 10, 1, 0, <<>>),
     Stats(100, 100, 40, 40, 15, 12, 1, 0, <<>>), Stats(90, 90, 35, 35, 14, 15, 1, 0, <<>>),
     Stats(5, 5, 3, 3, 4, 2, 1, 0, <<>>)}

LevelInit ==
    /\ \E c \in ClassStats :
          \E hp \in {1, c.max_hp}, mp \in {0, c.max_mp} :
              s = [c EXCEPT !.hp = hp, !.mp = mp]
    /\ call = NoCall

GainExp(amount) ==
    /\ s.exp + amount <= MaxExp
    /\ s' = gain_exp(s, amount)
    /\ call' = [NoCall EXCEPT !.op = "gain_exp", !.amount = amount]
    /\ UNCHANGED combat_vars

LevelNext == \E amount \in ExpAmounts : GainExp(amount)

\* the same player under grants below 100 only: the exp rewards of the enemies
\* of enemy.py (20, 30, 50, 75), no reward, and the largest grant below 100
RewardAmounts == {0, 20, 30, 50, 75, 99}

RewardNext == \E amount \in RewardAmounts : GainExp(amount)

(***************************************************************************)
(* Combat inputs: players, enemies and skills built with the constructors  *)
(* of player.py and enemy.py, with small pools so that a session reaches   *)
(* every outcome within MaxTurns loop iterations.                          *)
(***************************************************************************)
MaxTurns == 5

\* uniform(0.8, 1.2) and uniform(0.9, 1.1): both ends and the midpoint, in percent
BasicVariance == {80, 100, 120}

SkillVariance == {90, 100, 110}

\* random.random() in percent, around the threshold of _attempt_flee
FleeDraws == {0, 49, 50, 99}

FleeThreshold == 50

PowerStrike == Skill("Power Strike", 2, "damage", 15, 0, "")

BattleCry == Skill("Battle Cry", 1, "buff", 3, 2, "")

PoisonCloud == Skill("Poison Cloud", 1, "dot", 5, 2, "Poison")

FlameCurse == Skill("Flame Curse", 1, "dot", 4, 2, "Burn")

StunningStrike(duration) == Skill("Stunning Strike", 1, "stun", 0, duration, "")

HealthPotion == Item("Health Potion", "potion", {<<"hp", 2>>})

ManaPotion == Item("Mana Potion", "ether", {<<"mp", 2>>})

HealSkill == Skill("Heal", 1, "heal", 8, 0, "")

\* an item whose effect is left at the default None
OldKey == Item("Old Key", "key", {})

\* an item whose name differs from the key's in case only
Salve == Item("old key", "potion", {<<"hp", 1>>})

Stunned(duration) == StatusEffect("Stunned", "stun", "", 0, duration)

Player(stats, skills, inventory) ==
    [stats |-> stats, skills |-> skills, inventory |-> inventory, gold |-> 0]

Enemy(stats, exp_reward, gold_reward) ==
    [stats |-> stats, exp_reward |-> exp_reward, gold_reward |-> gold_reward]

\* a warrior 20 exp short of level 2, a wizard, and a thief whose stun lasts d turns
\* and who carries a key and, behind it, an item named like the key in lower case
Players ==
    {add_item(Player(Stats(5, 5, 3, 3, 4, 2, 1, 80, <<>>), <<PowerStrike, BattleCry>>,
                     <<>>),
              HealthPotion),
     add_item(Player(Stats(4, 4, 3, 3, 4, 2, 1, 0, <<>>),
                     <<PoisonCloud, FlameCurse, HealSkill>>, <<>>),
              ManaPotion)}
    \cup {add_item(add_item(Player(Stats(4, 4, 2, 2, 3, 3, 1, 0, <<>>),
                                   <<StunningStrike(d)>>, <<>>),
                            OldKey),
                   Salve) :
            d \in 1..MaxDuration}

Enemies ==
    {Enemy(Stats(5, 5, 0, 0, 2, 1, 1, 0, <<>>), 20, 10),
     Enemy(Stats(9, 9, 0, 0, 4, 1, 3, 0, <<>>), 75, 35)}

StunTrack(st) ==
    [applied |-> IF is_stunned(st)
                 THEN st.status_effects[FirstEffectNamed(st, "Stunned")].duration
                 ELSE 0,
     skipped |-> 0,
     refreshed |-> FALSE]

\* CombatSystem.__init__ on a living player and enemy; the player may arrive stunned
CombatInit ==
    /\ \E p \in Players, e \in Enemies, d \in 0..MaxDuration :
          /\ player = IF d = 0 THEN p
                      ELSE [p EXCEPT !.stats.status_effects = <<Stunned(d)>>]
          /\ enemy = e
    /\ turn = 0
    /\ pc = "loop"
    /\ choice = "none"
    /\ input = ""
    /\ draw = 0
    /\ result = "None"
    /\ start = [player |-> player, enemy |-> enemy]
    /\ stun = [player |-> StunTrack(player.stats), enemy |-> StunTrack(enemy.stats)]

(***************************************************************************)
(* combat.py: CombatSystem.run_combat, one action per step of the loop.    *)
(* pc: "loop" the while test (28), "main" the main prompt (43),            *)
(* "handle_skills" and "handle_items" the sub-menu prompts (98, 128),      *)
(* "enemy_turn" (_enemy_turn), "end_of_turn" (_end_of_turn, 84 or 39),     *)
(* "handle_victory" (_handle_victory), "done" (run_combat has returned),   *)
(* "raised" (int raised ValueError out of run_combat, lines 104 and 134).  *)
(***************************************************************************)
MenuInputs == {"0", "1", "2", "3", "4", "5", "01", "²", "x", ""}

\* the decimal digits int accepts, with their values
DecimalValue ==
    ("0" :> 0) @@ ("1" :> 1) @@ ("2" :> 2) @@ ("3" :> 3) @@ ("4" :> 4)
    @@ ("5" :> 5) @@ ("6" :> 6) @@ ("7" :> 7) @@ ("8" :> 8) @@ ("9" :> 9)

\* characters str.isdigit accepts and int rejects: the superscript digits of
\* Latin-1
OtherDigits == {"¹", "²", "³"}

RECURSIVE AllIn(_, _)
AllIn(line, chars) ==
    line = "" \/ (Head(line) \in chars /\ AllIn(Tail(line), chars))

\* str.isdigit: at least one character, every character a digit
isdigit(line) ==
    line # "" /\ AllIn(line, DOMAIN DecimalValue \cup OtherDigits)

\* int(line) returns for a line of decimal digits and raises ValueError for
\* any other line that passed isdigit
IsDecimal(line) == line # "" /\ AllIn(line, DOMAIN DecimalValue)

RECURSIVE IntFrom(_, _)
IntFrom(line, value) ==
    IF line = "" THEN value
    ELSE IntFrom(Tail(line), 10 * value + DecimalValue[Head(line)])

int(line) == IntFrom(line, 0)

\* line 28, then 29-40 (a stunned player skips the prompt) or 86-93
LoopCheck ==
    /\ pc = "loop"
    /\ IF is_alive(player.stats) /\ is_alive(enemy.stats)
       THEN /\ turn < MaxTurns
            /\ turn' = turn + 1
            /\ result' = result
            /\ IF is_stunned(player.stats)
               THEN /\ choice' = "stunned"
                    /\ stun' = [stun EXCEPT !.player.skipped = @ + 1]
                    /\ pc' = "enemy_turn"
               ELSE /\ choice' = "none"
                    /\ stun' = stun
                    /\ pc' = "main"
       ELSE /\ result' = IF ~is_alive(player.stats) THEN "False" ELSE "True"
            /\ pc' = "done"
            /\ UNCHANGED <<turn, choice, stun>>
    /\ UNCHANGED <<player, enemy, input, draw, start, s, call>>

\* Attack without the test of lines 49-50
Attack_without_victory_test(m) ==
    /\ pc = "main"
    /\ choice' = "attack"
    /\ enemy' = [enemy EXCEPT
                   !.stats = basic_attack(player.stats, enemy.stats, m).target]
    /\ pc' = "enemy_turn"
    /\ draw' = m
    /\ UNCHANGED <<player, turn, input, result, start, stun, s, call>>

\* choice '1', lines 45-53
Attack(m) ==
    /\ pc = "main"
    /\ choice' = "attack"
    /\ LET hit == basic_attack(player.stats, enemy.stats, m)
       IN /\ enemy' = [enemy EXCEPT !.stats = hit.target]
          /\ pc' = IF ~is_alive(hit.target) THEN "handle_victory" ELSE "enemy_turn"
    /\ draw' = m
    /\ UNCHANGED <<player, turn, input, result, start, stun, s, call>>

\* choice '2', line 55-56: the skill menu opens
OpenSkills ==
    /\ pc = "main"
    /\ choice' = "skills"
    /\ pc' = "handle_skills"
    /\ UNCHANGED <<player, enemy, turn, input, draw, result, start, stun, s, call>>

\* _handle_skills, lines 98-118, and lines 58-65 of run_combat on its result
HandleSkills(line, m) ==
    /\ pc = "handle_skills"
    /\ input' = line
    /\ IF line # "0" /\ isdigit(line) /\ ~IsDecimal(line)
       THEN /\ pc' = "raised"
            /\ result' = "ValueError"
            /\ UNCHANGED <<player, enemy, draw, stun, choice>>
       ELSE IF line # "0" /\ isdigit(line)
          /\ 0 <= int(line) - 1 /\ int(line) - 1 < Len(player.skills)
       THEN LET skill == player.skills[int(line)]
                used == use_skill(player.stats, enemy.stats, skill, m)
            IN /\ player' = [player EXCEPT !.stats = used.caster]
               /\ enemy' = [enemy EXCEPT !.stats = used.target]
               /\ draw' = IF skill.skill_type = "damage" /\ ~used.none THEN m ELSE draw
               /\ stun' = IF skill.skill_type = "stun" /\ ~used.none
                          THEN IF HasEffectNamed(enemy.stats, "Stunned")
                               THEN [stun EXCEPT !.enemy.refreshed = TRUE]
                               ELSE [stun EXCEPT !.enemy =
                                       [applied |-> skill.duration, skipped |-> 0,
                                        refreshed |-> FALSE]]
                          ELSE stun
               /\ choice' = IF used.none THEN "declined" ELSE choice
               /\ pc' = IF used.none THEN "loop"
                        ELSE IF ~is_alive(used.target) THEN "handle_victory"
                        ELSE "enemy_turn"
               /\ result' = result
       ELSE /\ pc' = "loop"
            /\ choice' = "declined"
            /\ UNCHANGED <<player, enemy, draw, stun, result>>
    /\ UNCHANGED <<turn, start, s, call>>

\* choice '3', line 67-68: the item menu opens
OpenItems ==
    /\ pc = "main"
    /\ choice' = "items"
    /\ pc' = "handle_items"
    /\ UNCHANGED <<player, enemy, turn, input, draw, result, start, stun, s, call>>

\* _handle_items, lines 122-142, and lines 70-74 of run_combat on its result
HandleItems(line) ==
    /\ pc = "handle_items"
    /\ IF player.inventory = <<>>
       THEN /\ pc' = "loop"
            /\ choice' = "declined"
            /\ UNCHANGED <<player, input, result>>
       ELSE /\ input' = line
            /\ IF line # "0" /\ isdigit(line) /\ ~IsDecimal(line)
               THEN /\ pc' = "raised"
                    /\ result' = "ValueError"
                    /\ UNCHANGED <<player, choice>>
               ELSE IF line # "0" /\ isdigit(line)
                  /\ 0 <= int(line) - 1 /\ int(line) - 1 < Len(player.inventory)
               THEN LET used == use_item(player, player.inventory[int(line)].name)
                    IN /\ player' = used.player
                       /\ choice' = IF used.ret # "None" THEN choice ELSE "declined"
                       /\ pc' = IF used.ret # "None" THEN "enemy_turn" ELSE "loop"
                       /\ result' = result
               ELSE /\ pc' = "loop"
                    /\ choice' = "declined"
                    /\ UNCHANGED <<player, result>>
    /\ UNCHANGED <<enemy, turn, draw, start, stun, s, call>>

\* Run whose failure skips the enemy's retaliation of line 81
Run_without_retaliation(r) ==
    /\ pc = "main"
    /\ choice' = "run"
    /\ IF r < FleeThreshold
       THEN /\ result' = "False"
            /\ pc' = "done"
       ELSE /\ result' = result
            /\ pc' = "end_of_turn"
    /\ draw' = r
    /\ UNCHANGED <<player, enemy, turn, input, start, stun, s, call>>

\* Run whose flee also succeeds on a draw of exactly the threshold
Run_succeeds_at_threshold(r) ==
    /\ pc = "main"
    /\ choice' = "run"
    /\ IF r <= FleeThreshold
       THEN /\ result' = "False"
            /\ pc' = "done"
       ELSE /\ result' = result
            /\ pc' = "enemy_turn"
    /\ draw' = r
    /\ UNCHANGED <<player, enemy, turn, input, start, stun, s, call>>

\* choice '4', lines 76-81, and _attempt_flee on the draw r (random.random() * 100)
Run(r) ==
    /\ pc = "main"
    /\ choice' = "run"
    /\ IF r < FleeThreshold
       THEN /\ result' = "False"
            /\ pc' = "done"
       ELSE /\ result' = result
            /\ pc' = "enemy_turn"
    /\ draw' = r
    /\ UNCHANGED <<player, enemy, turn, input, start, stun, s, call>>

\* any other choice: no branch of lines 45-81 is taken and line 84 runs
OtherChoice(line) ==
    /\ pc = "main"
    /\ line \notin {"1", "2", "3", "4"}
    /\ choice' = "other"
    /\ input' = line
    /\ pc' = "end_of_turn"
    /\ UNCHANGED <<player, enemy, turn, draw, result, start, stun, s, call>>

\* _enemy_turn, lines 147-149: a stunned enemy does not act
EnemyStunned ==
    /\ pc = "enemy_turn"
    /\ is_stunned(enemy.stats)
    /\ stun' = [stun EXCEPT !.enemy.skipped = @ + 1]
    /\ pc' = "end_of_turn"
    /\ UNCHANGED <<player, enemy, turn, choice, input, draw, result, start, s, call>>

\* _enemy_turn, lines 151-153
EnemyAttack(m) ==
    /\ pc = "enemy_turn"
    /\ ~is_stunned(enemy.stats)
    /\ player' = [player EXCEPT
                    !.stats = basic_attack(enemy.stats, player.stats, m).target]
    /\ draw' = m
    /\ pc' = "end_of_turn"
    /\ UNCHANGED <<enemy, turn, choice, input, result, start, stun, s, call>>

\* _end_of_turn, lines 155-163
EndOfTurn ==
    /\ pc = "end_of_turn"
    /\ player' = [player EXCEPT !.stats = tick_status_effects(player.stats).stats]
    /\ enemy' = [enemy EXCEPT !.stats = tick_status_effects(enemy.stats).stats]
    /\ pc' = "loop"
    /\ UNCHANGED <<turn, choice, input, draw, result, start, stun, s, call>>

\* _handle_victory, lines 175-195
HandleVictory ==
    /\ pc = "handle_victory"
    /\ player' = [player EXCEPT !.stats = gain_exp(player.stats, enemy.exp_reward),
                                !.gold = player.gold + enemy.gold_reward]
    /\ result' = "True"
    /\ pc' = "done"
    /\ UNCHANGED <<enemy, turn, choice, input, draw, start, stun, s, call>>

Next ==
    \/ LoopCheck
    \/ \E m \in BasicVariance : Attack(m)
    \/ OpenSkills
    \/ \E line \in MenuInputs, m \in SkillVariance : HandleSkills(line, m)
    \/ OpenItems
    \/ \E line \in MenuInputs : HandleItems(line)
    \/ \E r \in FleeDraws : Run(r)
    \/ \E line \in MenuInputs : OtherChoice(line)
    \/ EnemyStunned
    \/ \E m \in BasicVariance : EnemyAttack(m)
    \/ EndOfTurn
    \/ HandleVictory

(***************************************************************************)
(* The specifications: a combat session (Spec), and a Stats object driven  *)
(* call by call (StatsSpec, TickSpec, ModifierSpec, PoolSpec, LevelSpec).  *)
(* Each leaves the other's variables at their first value.                 *)
(***************************************************************************)
Init ==
    /\ CombatInit
    /\ s = Stats(StatsMaxHp, StatsMaxHp, 0, 0, 1, 1, 1, 0, <<>>)
    /\ call = NoCall

Spec == Init /\ [][Next]_vars

\* CombatSystem.__init__ on whatever it is given: the constructor and run_combat
\* test nothing before the loop, so a combatant may arrive with hp 0
AnyStartInit ==
    /\ \E p \in Players, e \in Enemies :
          \E php \in {0, p.stats.hp}, ehp \in {0, e.stats.hp} :
              /\ player = [p EXCEPT !.stats.hp = php]
              /\ enemy = [e EXCEPT !.stats.hp = ehp]
    /\ turn = 0
    /\ pc = "loop"
    /\ choice = "none"
    /\ input = ""
    /\ draw = 0
    /\ result = "None"
    /\ start = [player |-> player, enemy |-> enemy]
    /\ stun = [player |-> StunTrack(player.stats), enemy |-> StunTrack(enemy.stats)]

StartSpecInit ==
    /\ AnyStartInit
    /\ s = Stats(StatsMaxHp, StatsMaxHp, 0, 0, 1, 1, 1, 0, <<>>)
    /\ call = NoCall

StartSpec == StartSpecInit /\ [][Next]_vars

\* a session played by a player who answers '1' (Attack) at every prompt. The
\* player may carry an attack debuff that outlasts the session, the enemy may
\* arrive stunned, and the enemy's hp is within the turn cap of the model, so
\* the cap is never what stops a session.
Weakened(power) == StatusEffect("Weaken", "stat_mod", "attack", 0 - power, MaxTurns + 1)

AttackInit ==
    /\ \E p \in Players, e \in {x \in Enemies : x.stats.hp <= MaxTurns},
          weak \in {0, MaxPower}, d \in 0..1 :
          /\ player = IF weak = 0 THEN p
                      ELSE [p EXCEPT !.stats.status_effects = <<Weakened(weak)>>]
          /\ enemy = IF d = 0 THEN e
                     ELSE [e EXCEPT !.stats.status_effects = <<Stunned(d)>>]
    /\ turn = 0
    /\ pc = "loop"
    /\ choice = "none"
    /\ input = ""
    /\ draw = 0
    /\ result = "None"
    /\ start = [player |-> player, enemy |-> enemy]
    /\ stun = [player |-> StunTrack(player.stats), enemy |-> StunTrack(enemy.stats)]

AttackSpecInit ==
    /\ AttackInit
    /\ s = Stats(StatsMaxHp, StatsMaxHp, 0, 0, 1, 1, 1, 0, <<>>)
    /\ call = NoCall

AttackNext ==
    \/ LoopCheck
    \/ \E m \in BasicVariance : Attack(m)
    \/ EnemyStunned
    \/ \E m \in BasicVariance : EnemyAttack(m)
    \/ EndOfTurn
    \/ HandleVictory

\* run_combat is one sequential loop and the player always answers the prompt:
\* a step that can be taken is taken
AttackSpec == AttackSpecInit /\ [][AttackNext]_vars /\ WF_vars(AttackNext)

\* a session of a caster whose skill book holds a buff, a debuff whose
\* effect_amount is 0 or 2, a stun, and a skill whose skill_type is none of
\* those use_skill tests for
Intimidate(power10) == Skill("Intimidate", 1, "debuff", power10, 2, "")

Charm == Skill("Charm", 1, "charm", 10, 1, "")

Shaman(power10) ==
    add_item(Player(Stats(5, 5, 3, 3, 4, 2, 1, 0, <<>>),
                    <<BattleCry, Intimidate(power10), StunningStrike(1), Charm>>,
                    <<>>),
             ManaPotion)

Casters == {Shaman(power10) : power10 \in {2, 5}}

CastInit ==
    /\ \E p \in Casters, e \in Enemies :
          /\ player = p
          /\ enemy = e
    /\ turn = 0
    /\ pc = "loop"
    /\ choice = "none"
    /\ input = ""
    /\ draw = 0
    /\ result = "None"
    /\ start = [player |-> player, enemy |-> enemy]
    /\ stun = [player |-> StunTrack(player.stats), enemy |-> StunTrack(enemy.stats)]

CastSpecInit ==
    /\ CastInit
    /\ s = Stats(StatsMaxHp, StatsMaxHp, 0, 0, 1, 1, 1, 0, <<>>)
    /\ call = NoCall

CastSpec == CastSpecInit /\ [][Next]_vars

(***************************************************************************)
(* game.py: Game.run.  pc continues outside a session: "menu" (main_menu,  *)
(* the prompt of line 38), "create_player" (_create_player, the class      *)
(* prompt of line 66), "exploring" (exploration_loop, the prompt of line   *)
(* 101), "game_over" (line 168), "quit" (run has returned).  A session is  *)
(* entered from exploration_loop (line 124-125) and left at "done" (its    *)
(* caller continues at line 127) or at "raised" (the exception leaves run).*)
(* The four classes, the enemy database, the potions and the gold found    *)
(* are scaled to the small Stats used for a session.                       *)
(***************************************************************************)
MaxItems == 3

MaxGold == 10

\* Game.player before a game and after a lost one; no CombatSystem yet
None == "None"

RapidShot == Skill("Rapid Shot", 1, "damage", 13, 0, "")

PiercingArrow == Skill("Piercing Arrow", 2, "damage", 18, 0, "")

Whirlwind == Skill("Whirlwind", 3, "damage", 20, 0, "")

Fireball == Skill("Fireball", 1, "damage", 16, 0, "")

Backstab == Skill("Backstab", 1, "damage", 17, 0, "")

PoisonBlade == Skill("Poison Blade", 1, "dot", 6, 2, "Poison")

\* Warrior, Ranger, Wizard, Thief: the stats of __init__ (scaled) and the
\* skills of _init_skills, in the order of the skills menu
Warrior ==
    Player(Stats(5, 5, 3, 3, 4, 2, 1, 0, <<>>), <<PowerStrike, Whirlwind, BattleCry>>, <<>>)

Ranger == Player(Stats(5, 5, 2, 2, 3, 3, 1, 0, <<>>), <<RapidShot, PiercingArrow>>, <<>>)

Wizard ==
    Player(Stats(4, 4, 3, 3, 4, 2, 1, 0, <<>>),
           <<Fireball, PoisonCloud, FlameCurse, HealSkill>>, <<>>)

Thief ==
    Player(Stats(4, 4, 2, 2, 3, 3, 1, 0, <<>>),
           <<Backstab, PoisonBlade, StunningStrike(1)>>, <<>>)

\* an item whose effect has both keys
Elixir == Item("Elixir", "potion", {<<"hp", 1>>, <<"mp", 1>>})

\* items a caller of add_item hands over besides the potions of lines 84-86:
\* a key without effect and an item with both keys
OtherItems == {OldKey, Elixir}

\* the templates random.choice draws from (line 105)
Encounters == {e \in Enemies : e.stats.hp <= MaxTurns}

\* random.random() of lines 104 and 137 in percent, around 0.7 and 0.4
ExploreDraws == {0, 39, 40, 69, 70, 99}

\* random.randint(10, 30): the low end
GoldFound == {10}

GameInputs == {"1", "2", "3", "4", "x"}

\* the lines typed during a session of a game, and the draws made in it
SessionInputs == {"1", "2", "3", "4", "²"}

SessionVariance == {100}

SessionFleeDraws == {49, 50}

\* lines 108-122: the enemy is built anew from its template
FreshEnemy(template) ==
    Enemy(Stats(template.stats.max_hp, template.stats.max_hp, template.stats.max_mp,
                template.stats.max_mp, template.stats.attack, template.stats.speed,
                template.stats.level, 0, <<>>),
          template.exp_reward, template.gold_reward)

\* Game.__init__, lines 19-23: game_state "menu", no player
GameInit ==
    /\ player = None
    /\ enemy = None
    /\ turn = 0
    /\ pc = "menu"
    /\ choice = "none"
    /\ input = ""
    /\ draw = 0
    /\ result = "None"
    /\ start = [player |-> None, enemy |-> None]
    /\ stun = [player |-> [applied |-> 0, skipped |-> 0, refreshed |-> FALSE],
               enemy |-> [applied |-> 0, skipped |-> 0, refreshed |-> FALSE]]

\* main_menu, lines 38-47: '1' enters _create_player (the name of line 57 is
\* not tracked), '2' ends run, any other line shows the menu again
MainMenu(line) ==
    /\ pc = "menu"
    /\ pc' = IF line = "1" THEN "create_player"
             ELSE IF line = "2" THEN "quit"
             ELSE "menu"
    /\ UNCHANGED <<player, enemy, turn, choice, input, draw, result, start, stun, s, call>>

\* _create_player, lines 65-91, and its return into main_menu (41-43): a valid
\* class makes the player, the three starting items are added, the game state
\* becomes "exploring"; any other line asks again
CreatePlayer(line) ==
    /\ pc = "create_player"
    /\ IF line \in {"1", "2", "3", "4"}
       THEN LET made == IF line = "1" THEN Warrior
                        ELSE IF line = "2" THEN Ranger
                        ELSE IF line = "3" THEN Wizard
                        ELSE Thief
            IN /\ player' = add_item(add_item(add_item(made, HealthPotion), ManaPotion),
                                     HealthPotion)
               /\ pc' = "exploring"
       ELSE UNCHANGED <<player, pc>>
    /\ UNCHANGED <<enemy, turn, choice, input, draw, result, start, stun, s, call>>

\* player.add_item(item), player.py 61-63: a call on the player in play
AddItem(item) ==
    /\ pc = "exploring"
    /\ Len(player.inventory) < MaxItems
    /\ player' = add_item(player, item)
    /\ UNCHANGED <<enemy, turn, pc, choice, input, draw, result, start, stun, s, call>>

\* exploration_loop, one pass of lines 99-155 up to the next prompt or to the
\* call of run_combat: r is random.random() in percent, template the enemy
\* drawn, gold the amount found
ExplorationLoop(line, r, template, gold) ==
    /\ pc = "exploring"
    /\ IF line = "1" /\ r < 70
       THEN /\ player.gold + template.gold_reward <= MaxGold
            /\ enemy' = FreshEnemy(template)
            /\ turn' = 0
            /\ pc' = "loop"
            /\ choice' = "none"
            /\ input' = ""
            /\ draw' = 0
            /\ result' = "None"
            /\ start' = [player |-> player, enemy |-> enemy']
            /\ stun' = [player |-> StunTrack(player.stats),
                        enemy |-> StunTrack(enemy'.stats)]
            /\ player' = player
       ELSE IF line = "2" /\ r < 40
       THEN /\ player.gold + gold <= MaxGold
            /\ player' = [player EXCEPT !.gold = @ + gold]
            /\ UNCHANGED <<enemy, turn, pc, choice, input, draw, result, start, stun>>
       ELSE IF line = "3"
       THEN /\ player' = [player EXCEPT
                            !.stats = restore_mp(heal(player.stats,
                                                      player.stats.max_hp \div 3).stats,
                                                 player.stats.max_mp \div 2)]
            /\ UNCHANGED <<enemy, turn, pc, choice, input, draw, result, start, stun>>
       ELSE IF line = "4"
       THEN /\ pc' = "menu"
            /\ UNCHANGED <<player, enemy, turn, choice, input, draw, result, start, stun>>
       ELSE UNCHANGED <<player, enemy, turn, pc, choice, input, draw, result, start, stun>>
    /\ UNCHANGED <<s, call>>

\* lines 125-131: run_combat has returned; a lost fight with a dead player
\* ends the game, every other outcome goes on exploring.  The CombatSystem and
\* the enemy are locals that nothing reads again: the session's variables go
\* back to their values without a session
CombatReturns ==
    /\ pc = "done"
    /\ pc' = IF result = "False" /\ ~is_alive(player.stats) THEN "game_over"
             ELSE "exploring"
    /\ enemy' = None
    /\ turn' = 0
    /\ choice' = "none"
    /\ input' = ""
    /\ draw' = 0
    /\ result' = "None"
    /\ start' = [player |-> None, enemy |-> None]
    /\ stun' = [player |-> [applied |-> 0, skipped |-> 0, refreshed |-> FALSE],
                enemy |-> [applied |-> 0, skipped |-> 0, refreshed |-> FALSE]]
    /\ UNCHANGED <<player, s, call>>

\* run, lines 168-177: back to the menu, the player is dropped
GameOver ==
    /\ pc = "game_over"
    /\ pc' = "menu"
    /\ player' = None
    /\ UNCHANGED <<enemy, turn, choice, input, draw, result, start, stun, s, call>>

GameSpecInit ==
    /\ GameInit
    /\ s = Stats(StatsMaxHp, StatsMaxHp, 0, 0, 1, 1, 1, 0, <<>>)
    /\ call = NoCall

GameNext ==
    \/ \E line \in GameInputs : MainMenu(line)
    \/ \E line \in GameInputs : CreatePlayer(line)
    \/ \E item \in OtherItems : AddItem(item)
    \/ \E line \in GameInputs, r \in ExploreDraws, template \in Encounters,
          gold \in GoldFound : ExplorationLoop(line, r, template, gold)
    \/ CombatReturns
    \/ GameOver
    \/ LoopCheck
    \/ \E m \in SessionVariance : Attack(m)
    \/ OpenSkills
    \/ \E line \in SessionInputs, m \in SessionVariance : HandleSkills(line, m)
    \/ OpenItems
    \/ \E line \in SessionInputs : HandleItems(line)
    \/ \E r \in SessionFleeDraws : Run(r)
    \/ \E line \in {"x"} : OtherChoice(line)
    \/ EnemyStunned
    \/ \E m \in SessionVariance : EnemyAttack(m)
    \/ EndOfTurn
    \/ HandleVictory

GameSpec == GameSpecInit /\ [][GameNext]_vars

StatsSpecInit ==
    /\ StatsInit
    /\ player = Player(Stats(5, 5, 3, 3, 4, 2, 1, 80, <<>>), <<>>, <<>>)
    /\ enemy = Enemy(Stats(5, 5, 0, 0, 2, 1, 1, 0, <<>>), 20, 10)
    /\ turn = 0
    /\ pc = "loop"
    /\ choice = "none"
    /\ input = ""
    /\ draw = 0
    /\ result = "None"
    /\ start = [player |-> player, enemy |-> enemy]
    /\ stun = [player |-> StunTrack(player.stats), enemy |-> StunTrack(enemy.stats)]

StatsSpec == StatsSpecInit /\ [][StatsNext]_vars

\* no session runs: the combat variables keep the values of a session not yet started
NoSession ==
    /\ player = Player(Stats(5, 5, 3, 3, 4, 2, 1, 80, <<>>), <<>>, <<>>)
    /\ enemy = Enemy(Stats(5, 5, 0, 0, 2, 1, 1, 0, <<>>), 20, 10)
    /\ turn = 0
    /\ pc = "loop"
    /\ choice = "none"
    /\ input = ""
    /\ draw = 0
    /\ result = "None"
    /\ start = [player |-> player, enemy |-> enemy]
    /\ stun = [player |-> StunTrack(player.stats), enemy |-> StunTrack(enemy.stats)]

TickSpecInit == StatsInit /\ NoSession

TickSpec == TickSpecInit /\ [][TickNext]_vars

ModifierSpecInit == ModifierInit /\ NoSession

ModifierSpec == ModifierSpecInit /\ [][ModifierNext]_vars

RefreshSpecInit == RefreshInit /\ NoSession

RefreshSpec == RefreshSpecInit /\ [][RefreshNext]_vars

PoolSpecInit == PoolInit /\ NoSession

PoolSpec == PoolSpecInit /\ [][PoolNext]_vars

LevelSpecInit == LevelInit /\ NoSession

LevelSpec == LevelSpecInit /\ [][LevelNext]_vars

RewardSpec == LevelSpecInit /\ [][RewardNext]_vars

(***************************************************************************)
(* Claims                                                                  *)
(***************************************************************************)
Victory == pc = "done" /\ ~is_alive(enemy.stats) /\ is_alive(player.stats)

\* C1: whenever run_combat ends with the enemy at hp 0 and the player alive,
\* whichever blow brought the enemy down (Attack, a Damage skill, or DOT damage
\* of the end-of-turn tick), it returns True and the player has gained
\* enemy.exp_reward exp and enemy.gold_reward gold, exactly once each.
C1_VictoryGrantsRewards ==
    Victory =>
        /\ result = "True"
        /\ player.stats.exp = start.player.stats.exp + enemy.exp_reward
        /\ player.gold = start.player.gold + enemy.gold_reward

\* C2: when the enemy's basic attack has brought the player's hp to 0, no
\* end-of-turn tick follows: no status effect of either combatant is aged or
\* removed and no DOT damage is dealt, whether the player acted or was stunned.
C2_NoTickAfterPlayerDeath ==
    [][(pc = "end_of_turn" /\ ~is_alive(player.stats))
          => (player'.stats = player.stats /\ enemy'.stats = enemy.stats)]_vars

Remaining(st) ==
    IF is_stunned(st)
    THEN st.status_effects[FirstEffectNamed(st, "Stunned")].duration
    ELSE 0

\* C5: a Stun of duration d >= 1 that is not re-applied makes its bearer skip
\* one action phase per end-of-turn tick that ages it, d in all: between turns
\* the phases skipped so far are d minus the turns the Stun still has to run.
C5_StunSkipsOnePhasePerTick ==
    pc = "loop" =>
        \A c \in {"player", "enemy"} :
            (stun[c].applied >= 1 /\ ~stun[c].refreshed)
                => stun[c].skipped
                     = stun[c].applied - Remaining(IF c = "player" THEN player.stats
                                                   ELSE enemy.stats)

\* C10: use_skill computes effect_amount as floor(effective_attack * power),
\* the caster's attack StatModifier effects included, for every skill the
\* player can choose at the skill menu.
C10_EffectAmountFromEffectiveAttack ==
    pc = "handle_skills" =>
        \A k \in 1..Len(player.skills) :
            effect_amount(player.stats, player.skills[k])
                = (get_effective_attack(player.stats) * player.skills[k].power10) \div 10

\* the sub-choice read at a sub-menu is one the claim lists as declined: the
\* cancel, a line that is no number, an index out of range, a skill the
\* player cannot pay
DeclinedSkillChoice(line) ==
    \/ line = "0"
    \/ ~IsDecimal(line)
    \/ int(line) < 1
    \/ int(line) - 1 >= Len(player.skills)
    \/ player.stats.mp < player.skills[int(line)].mp_cost

DeclinedItemChoice(line) ==
    \/ player.inventory = <<>>
    \/ line = "0"
    \/ ~IsDecimal(line)
    \/ int(line) < 1
    \/ int(line) - 1 >= Len(player.inventory)

\* C3: a declined sub-choice (skill menu cancel, skill index out of range or
\* non-numeric, insufficient MP, item menu cancel, invalid inventory index,
\* empty inventory) does not consume the turn: control goes from the sub-menu
\* back to the loop test and to the next main prompt, not through the enemy
\* phase or the tick, and player (stats, inventory) and enemy are unchanged
\* from the main prompt before the choice to the main prompt after it.
C3_DeclinedChoiceKeepsTurn ==
    [][/\ (pc = "main" /\ pc' \in {"handle_skills", "handle_items"})
             => (player' = player /\ enemy' = enemy)
       /\ (pc = "handle_skills" /\ DeclinedSkillChoice(input'))
             => (pc' = "loop" /\ choice' = "declined"
                 /\ player' = player /\ enemy' = enemy)
       /\ (pc = "handle_items" /\ DeclinedItemChoice(input'))
             => (pc' = "loop" /\ choice' = "declined"
                 /\ player' = player /\ enemy' = enemy)
       /\ (pc = "loop" /\ choice = "declined")
             => (pc' = "main" /\ player' = player /\ enemy' = enemy)]_vars

\* C4: when the player's Attack or successfully used skill brings the enemy's
\* hp to 0, the next step is _handle_victory and then the return of True: no
\* enemy phase, no tick, the enemy untouched and the player's hp not reduced.
C4_KillingBlowEndsCombat ==
    [][/\ (/\ pc \in {"main", "handle_skills"}
           /\ is_alive(enemy.stats) /\ ~is_alive(enemy'.stats))
             => pc' = "handle_victory"
       /\ pc = "handle_victory"
             => /\ pc' = "done" /\ result' = "True"
                /\ enemy' = enemy
                /\ player'.stats.hp >= player.stats.hp
                /\ player'.stats.status_effects = player.stats.status_effects]_vars

\* a Damage skill dealt the killing blow and run_combat returned True
C4_Witness ==
    /\ pc = "done" /\ result = "True" /\ choice = "skills"
    /\ ~is_alive(enemy.stats)
    /\ player.skills[int(input)].skill_type = "damage"

\* C6: a successful Flee returns False at once and a failed Flee goes on to the
\* enemy phase, either way with player and enemy unchanged by the attempt; the
\* enemy phase is always followed by the end-of-turn tick of both combatants.
C6_FleeOutcomes ==
    [][/\ (pc = "main" /\ choice' = "run")
             => /\ player' = player /\ enemy' = enemy
                /\ \/ pc' = "done" /\ result' = "False"
                   \/ pc' = "enemy_turn" /\ result' = "None"
       /\ (pc = "enemy_turn" /\ choice = "run")
             => pc' = "end_of_turn" /\ result' = "None"
       /\ (pc = "end_of_turn" /\ choice = "run")
             => /\ pc' = "loop" /\ result' = "None"
                /\ player'.stats = tick_status_effects(player.stats).stats
                /\ enemy'.stats = tick_status_effects(enemy.stats).stats]_vars

\* a failed Flee, the enemy's attack after it, and the tick after that
C6_Witness ==
    /\ pc = "loop" /\ choice = "run" /\ result = "None"
    /\ player.stats.hp < start.player.stats.hp

EntriesNamed(st, name) ==
    {i \in 1..Len(st.status_effects) : st.status_effects[i].name = name}

\* C7: a Stats container that starts with no effects holds at most one
\* StatusEffect per effect name after any sequence of add_status_effect,
\* remove_status_effect and tick_status_effects calls.
C7_OneEntryPerName ==
    \A i, j \in 1..Len(s.status_effects) :
        s.status_effects[i].name = s.status_effects[j].name => i = j

\* an effect was added to a container that already held one of that name
C7_Witness ==
    /\ call.op = "add_status_effect"
    /\ Len(s.status_effects) >= 2
    /\ \E i \in EntriesNamed(s, call.effect.name) :
          s.status_effects[i].power > call.effect.power

\* C8: add_status_effect of a DamageOverTime effect on a container that holds a
\* DamageOverTime effect of that name leaves exactly one entry of that name,
\* with the sum of the two powers and the larger of the remaining duration and
\* the new duration; on a container without that name it adds the effect as is.
C8_DotStacks ==
    [][(call'.op = "add_status_effect"
        /\ call'.effect.effect_type = "damage_over_time")
          => LET new == call'.effect
                 after == s'.status_effects[FirstEffectNamed(s', new.name)]
             IN /\ Cardinality(EntriesNamed(s', new.name)) = 1
                /\ IF HasEffectNamed(s, new.name)
                   THEN LET existing ==
                               s.status_effects[FirstEffectNamed(s, new.name)]
                        IN /\ after.power = existing.power + new.power
                           /\ after.duration = Max(existing.duration, new.duration)
                   ELSE after = new]_vars

\* a second Poison was applied: one entry, power 1 + 2, the longer duration
C8_Witness ==
    /\ call.op = "add_status_effect"
    /\ call.effect.name = "Poison"
    /\ call.effect.duration < MaxDuration
    /\ Cardinality(EntriesNamed(s, "Poison")) = 1
    /\ \E i \in EntriesNamed(s, "Poison") :
          /\ s.status_effects[i].power = MaxPower
          /\ s.status_effects[i].duration = MaxDuration

\* C9 as stated: every take_damage call combat makes (an attack on a living
\* combatant, each DOT of a tick) lowers hp by at least 1, leaves hp >= 0 and
\* returns max(1, amount).
C9_DamageAlwaysLowersHp ==
    \A k \in 1..Len(call.damage_calls) :
        LET c == call.damage_calls[k]
        IN /\ c.hp - c.after >= 1
           /\ c.after >= 0
           /\ c.ret = Max(1, c.damage)

\* C9 amended: every take_damage call returns max(1, amount) and leaves
\* hp = max(0, hp - max(1, amount)): at least 1 lower when hp was at least 1,
\* still 0 when hp was already 0 (a second DOT of the same tick), never below 0.
C9_DamageFlooredAndClamped ==
    \A k \in 1..Len(call.damage_calls) :
        LET c == call.damage_calls[k]
        IN /\ c.ret = Max(1, c.damage)
           /\ c.after = Max(0, c.hp - Max(1, c.damage))
           /\ c.after >= 0
           /\ c.hp >= 1 => c.hp - c.after >= 1
           /\ c.hp = 0 => c.after = 0

\* a tick in which the first DOT brought hp to 0 and a second DOT then ticked
C9_Witness ==
    /\ call.op = "tick_status_effects"
    /\ Len(call.damage_calls) = 2
    /\ call.damage_calls[1].hp >= 1
    /\ call.damage_calls[2].hp = 0
    /\ call.damage_calls[2].ret >= 1

\* the line read at the skill menu names a skill of the player
ValidSkillChoice(line) ==
    /\ line # "0" /\ isdigit(line) /\ IsDecimal(line)
    /\ 1 <= int(line) /\ int(line) <= Len(player.skills)

ChosenSkill(line) == player.skills[int(line)]

\* C11: a Heal skill the player uses in combat is a self-heal: the player's hp
\* becomes min(max_hp, hp + effect_amount) and the enemy's hp is unchanged.
C11_HealSkillHealsCaster ==
    [][(/\ pc = "handle_skills" /\ ValidSkillChoice(input')
        /\ ChosenSkill(input').skill_type = "heal"
        /\ player.stats.mp >= ChosenSkill(input').mp_cost)
          => /\ enemy'.stats.hp = enemy.stats.hp
             /\ player'.stats.hp
                  = Min(player.stats.max_hp,
                        player.stats.hp
                          + effect_amount(player.stats, ChosenSkill(input')))]_vars

\* C12: a skill chosen with mp < mp_cost fails with no state change: use_skill
\* returns the failure outcome with caster and target as they were, and
\* run_combat goes back to the loop test, not to the enemy phase or the tick.
C12_MpShortageAborts ==
    [][(/\ pc = "handle_skills" /\ ValidSkillChoice(input')
        /\ player.stats.mp < ChosenSkill(input').mp_cost)
          => /\ \A m \in SkillVariance :
                   LET r == use_skill(player.stats, enemy.stats,
                                      ChosenSkill(input'), m)
                   IN r.none /\ r.caster = player.stats /\ r.target = enemy.stats
             /\ player'.stats = player.stats
             /\ enemy'.stats = enemy.stats
             /\ pc' \notin {"enemy_turn", "end_of_turn", "handle_victory"}
             /\ pc' = "loop"]_vars

\* the loop test right after a skill failed for lack of MP, the enemy hurt before
C12_Witness ==
    /\ pc = "loop" /\ choice = "declined"
    /\ ValidSkillChoice(input)
    /\ player.stats.mp < ChosenSkill(input).mp_cost
    /\ enemy.stats.hp < start.enemy.stats.hp

\* C13: use_mp(x) succeeds and sets mp to mp - x iff mp >= x; when mp < x it
\* fails and leaves mp and every other field of the Stats unchanged.
C13_UseMpIffEnough ==
    [][call'.op = "use_mp"
          => IF s.mp >= call'.amount
             THEN call'.ret = 1 /\ s' = [s EXCEPT !.mp = s.mp - call'.amount]
             ELSE call'.ret = 0 /\ s' = s]_vars

\* a use_mp that failed on a pool one point short of the amount
C13_Witness ==
    /\ call.op = "use_mp" /\ call.ret = 0
    /\ s.mp >= 1 /\ call.amount = s.mp + 1

\* C19: heal(amount) sets hp to min(max_hp, hp + amount), so hp <= max_hp after
\* every heal (hp 10 of 50 healed by 100 gives 50), and returns max(1, amount),
\* floored at 1 and not clamped to the hp gained.
C19_HealClampsToMaxHp ==
    [][call'.op = "heal"
          => /\ s' = [s EXCEPT !.hp = Min(s.max_hp, s.hp + call'.amount)]
             /\ s'.hp <= s'.max_hp
             /\ (s.hp = 10 /\ s.max_hp = 50 /\ call'.amount = 100) => s'.hp = 50
             /\ call'.ret = Max(1, call'.amount)]_vars

\* a heal of 100 that filled the pool and reported 100
C19_Witness ==
    /\ call.op = "heal" /\ call.amount = 100 /\ call.ret = 100
    /\ s.hp = s.max_hp

\* C14: a UseItem action that consumes the turn removes exactly one instance
\* of the chosen item from the inventory (one entry equal to it, the other
\* entries kept in order) and applies the item's effect once: hp restored if
\* the effect has "hp", mp if it has "mp".
C14_UsedItemIsConsumed ==
    [][(pc = "handle_items" /\ pc' = "enemy_turn")
          => LET item == player.inventory[int(input')]
             IN /\ \E k \in 1..Len(player.inventory) :
                      /\ player.inventory[k] = item
                      /\ player'.inventory = RemoveAt(player.inventory, k)
                /\ player'.stats.hp
                     = IF HasKey(item.effect, "hp")
                       THEN Min(player.stats.max_hp,
                                player.stats.hp + ValueOf(item.effect, "hp"))
                       ELSE player.stats.hp
                /\ player'.stats.mp
                     = IF HasKey(item.effect, "mp")
                       THEN Min(player.stats.max_mp,
                                player.stats.mp + ValueOf(item.effect, "mp"))
                       ELSE player.stats.mp]_vars

\* C15: gain_exp(amount) adds amount to exp and performs exactly one level-up
\* when the new exp >= level * 100 and none otherwise, never more than one per
\* call even when the new exp also reaches the next level's threshold (level 1,
\* exp 0, gain 100 gives level 2).
C15_OneLevelUpPerGain ==
    [][call'.op = "gain_exp"
          => /\ s'.exp = s.exp + call'.amount
             /\ s'.level = IF s.exp + call'.amount >= s.level * 100
                           THEN s.level + 1 ELSE s.level
             /\ s'.level = s.level => s' = [s EXCEPT !.exp = s.exp + call'.amount]
             /\ (s.level = 1 /\ s.exp = 0 /\ call'.amount = 100) => s'.level = 2]_vars

\* a grant of 250 at level 1 left the player at level 2 with exp past 200
C15_Witness ==
    /\ call.op = "gain_exp" /\ call.amount = 250
    /\ s.level = 2 /\ s.exp >= s.level * 100

\* C16: one level-up sets level to level + 1, raises max_hp, max_mp and attack
\* each by floor(old value / 10), sets hp and mp to the new maxima, raises
\* speed by 1 and leaves exp (and the status effects) as gain_exp set them.
C16_LevelUpGrowth ==
    [][(call'.op = "gain_exp" /\ s'.level # s.level)
          => /\ s'.level = s.level + 1
             /\ s'.max_hp = s.max_hp + (s.max_hp \div 10)
             /\ s'.max_mp = s.max_mp + (s.max_mp \div 10)
             /\ s'.attack = s.attack + (s.attack \div 10)
             /\ s'.hp = s'.max_hp
             /\ s'.mp = s'.max_mp
             /\ s'.speed = s.speed + 1
             /\ s'.exp = s.exp + call'.amount
             /\ s'.status_effects = s.status_effects]_vars

\* the Warrior after one level-up: 120 -> 132 hp, 30 -> 33 mp, 18 -> 19 attack
C16_Witness ==
    /\ call.op = "gain_exp" /\ s.level = 2
    /\ s.max_hp = 132 /\ s.hp = 132 /\ s.max_mp = 33 /\ s.mp = 33
    /\ s.attack = 19 /\ s.speed = 9

DotsOf(st) ==
    SelectSeq(st.status_effects, LAMBDA e : e.effect_type = "damage_over_time")

Aged(effects) ==
    [i \in 1..Len(effects) |-> [effects[i] EXCEPT !.duration = effects[i].duration - 1]]

\* C17: a tick processes every effect present at its start exactly once, in
\* list order: each DOT deals its power through take_damage, one call after
\* the other; every duration then decreases by 1 and exactly the effects whose
\* duration reached 0 are removed, after the pass; a DOT of duration d deals
\* damage on exactly d ticks, so a DOT that deals damage has d >= 1.
C17_TickProcessesEachEffectOnce ==
    [][call'.op = "tick_status_effects"
          => LET dots == DotsOf(s)
                 calls == call'.damage_calls
             IN /\ Len(calls) = Len(dots)
                /\ \A i \in 1..Len(dots) :
                      /\ calls[i].damage = dots[i].power
                      /\ calls[i].hp = IF i = 1 THEN s.hp ELSE calls[i - 1].after
                      /\ calls[i].after = Max(0, calls[i].hp - Max(1, dots[i].power))
                /\ s'.hp = IF dots = <<>> THEN s.hp ELSE calls[Len(calls)].after
                /\ \A i \in 1..Len(dots) : dots[i].duration >= 1
                /\ s'.status_effects
                     = SelectSeq(Aged(s.status_effects), LAMBDA e : e.duration # 0)]_vars

PoolsInRange(st) ==
    /\ 0 <= st.hp /\ st.hp <= st.max_hp
    /\ 0 <= st.mp /\ st.mp <= st.max_mp

\* C18: in every state of a combat session played with skills of the classes'
\* kinds, hp and mp potions and the enemies, the level-up granted on victory
\* included, both combatants have 0 <= hp <= max_hp and 0 <= mp <= max_mp.
C18_PoolsStayInRange == PoolsInRange(player.stats) /\ PoolsInRange(enemy.stats)

\* a victory that levelled the player up, after the player had been hurt
C18_Witness ==
    /\ pc = "done" /\ result = "True"
    /\ player.stats.level = start.player.stats.level + 1
    /\ player.stats.hp = player.stats.max_hp
    /\ turn >= 2

\* the power of the stat_mod effect of that name on that stat, 0 if there is none
PowerOf(st, name, stat_name) ==
    IF \E i \in 1..Len(st.status_effects) :
          /\ st.status_effects[i].name = name
          /\ st.status_effects[i].effect_type = "stat_mod"
          /\ st.status_effects[i].stat_affected = stat_name
    THEN st.status_effects[FirstEffectNamed(st, name)].power
    ELSE 0

TotalModifier(st, stat_name) ==
    PowerOf(st, "Battle Cry", stat_name) + PowerOf(st, "Weaken", stat_name)
        + PowerOf(st, "Slow", stat_name)

\* C20: effective_attack is max(1, attack + the sum of the powers of the
\* stat_mod effects on "attack") and effective_speed the same for "speed", so
\* both are at least 1 whatever debuffs are active.
C20_EffectiveStatsFloored ==
    /\ get_effective_attack(s) = Max(1, s.attack + TotalModifier(s, "attack"))
    /\ get_effective_speed(s) = Max(1, s.speed + TotalModifier(s, "speed"))
    /\ get_effective_attack(s) >= 1
    /\ get_effective_speed(s) >= 1

\* a buff and a larger debuff on attack, and a debuff on speed: both sums below 1
C20_Witness ==
    /\ PowerOf(s, "Battle Cry", "attack") = 1
    /\ PowerOf(s, "Weaken", "attack") = 0 - MaxPower
    /\ s.attack + TotalModifier(s, "attack") < 1
    /\ s.speed + TotalModifier(s, "speed") < 1

\* C21: a Flee attempt succeeds iff the draw r is below 0.5 (50 in percent):
\* a draw of exactly 0.5 fails, and the outcome depends on r alone, whatever
\* the state of the combatants.
C21_FleeIffDrawBelowHalf ==
    [][(pc = "main" /\ choice' = "run")
          => /\ draw' < 50 <=> (pc' = "done" /\ result' = "False")
             /\ draw' >= 50 <=> (pc' = "enemy_turn" /\ result' = "None")
             /\ draw' = 50 => pc' = "enemy_turn"]_vars

\* a Flee that failed on a draw of exactly 0.5, the player hurt before it
C21_Witness ==
    /\ pc = "enemy_turn" /\ choice = "run" /\ draw = 50
    /\ player.stats.hp < start.player.stats.hp

\* round(num / den) as Python rounds a float: to the nearest integer, a tie to
\* the even one
RoundNearest(num, den) ==
    LET q == num \div den
        r == num % den
    IN IF 2 * r < den THEN q
       ELSE IF 2 * r > den THEN q + 1
       ELSE IF q % 2 = 0 THEN q ELSE q + 1

\* C22: damage is the variance product rounded to the nearest integer and
\* then passed through take_damage: round(effective_attack * m) for a basic
\* attack of the player or the enemy, round(effect_amount * m) for a Damage
\* skill.
C22_DamageIsRounded ==
    [][/\ (pc = "main" /\ choice' = "attack")
             => enemy'.stats.hp
                  = take_damage(enemy.stats,
                        RoundNearest(get_effective_attack(player.stats) * draw', 100)
                    ).stats.hp
       /\ (pc = "enemy_turn" /\ ~is_stunned(enemy.stats))
             => player'.stats.hp
                  = take_damage(player.stats,
                        RoundNearest(get_effective_attack(enemy.stats) * draw', 100)
                    ).stats.hp
       /\ (/\ pc = "handle_skills" /\ ValidSkillChoice(input')
           /\ ChosenSkill(input').skill_type = "damage"
           /\ player.stats.mp >= ChosenSkill(input').mp_cost)
             => enemy'.stats.hp
                  = take_damage(enemy.stats,
                        RoundNearest(effect_amount(player.stats, ChosenSkill(input'))
                                       * draw', 100)
                    ).stats.hp]_vars

\* C23: a session is only started with both combatants alive: one whose
\* player or enemy arrives at hp 0 is rejected, it is never resolved as a
\* victory (True) or a defeat (False).
C23_DeadStartIsRejected ==
    (~is_alive(start.player.stats) \/ ~is_alive(start.enemy.stats))
        => (pc # "done" /\ result = "None")

\* C24: the status effects tick only at the end of a full turn: a main-menu
\* choice that is none of '1'..'4' runs no tick and changes neither combatant.
C24_UnrecognisedChoiceDoesNotTick ==
    [][(pc = "end_of_turn" /\ choice = "other")
          => UNCHANGED <<player, enemy>>]_vars

\* C25: combat terminates under a player who always attacks: every basic
\* attack lowers the enemy's hp by at least 1 whatever debuff the attacker
\* carries, so after n attacks the enemy has lost at least n hp, n never
\* exceeds the enemy's initial hp, and run_combat reaches a victory or a defeat.
C25_AttackingTerminates ==
    /\ [][(pc = "main" /\ choice' = "attack")
             => enemy'.stats.hp <= enemy.stats.hp - 1]_vars
    /\ [](pc \in {"loop", "done"}
            => /\ turn - stun.player.skipped <= start.enemy.stats.hp
               /\ enemy.stats.hp
                    <= start.enemy.stats.hp - (turn - stun.player.skipped))
    /\ <>(pc = "done" /\ result \in {"True", "False"})

\* a debuffed attacker wins with its last possible attack: as many attacks as
\* the enemy had hp, each of them dealing the floor of 1
C25_Witness ==
    /\ pc = "done" /\ result = "True" /\ choice = "attack"
    /\ HasEffectNamed(start.player.stats, "Weaken")
    /\ turn = start.enemy.stats.hp

\* every field of a Stats but its status effects
Pools(st) == [st EXCEPT !.status_effects = <<>>]

\* container `after` is container `before` with effect e added by name: a new
\* last entry, or the entry of that name with its duration refreshed
AddedByName(before, after, e) ==
    IF HasEffectNamed(before, e.name)
    THEN after = [before EXCEPT
                    !.status_effects[FirstEffectNamed(before, e.name)].duration
                        = Max(@, e.duration)]
    ELSE after = [before EXCEPT !.status_effects = Append(@, e)]

\* C26: a Buff skill adds a StatModifier on "attack" with power
\* max(1, effect_amount) and duration skill.duration to the caster and leaves
\* the target unchanged; a Debuff skill adds one with power
\* -max(1, effect_amount) to the target and changes nothing on the caster
\* except mp; both deduct exactly skill.mp_cost from the caster.
C26_BuffOnCasterDebuffOnTarget ==
    [][(/\ pc = "handle_skills" /\ ValidSkillChoice(input')
        /\ player.stats.mp >= ChosenSkill(input').mp_cost)
          => LET skill == ChosenSkill(input')
                 amount == Max(1, effect_amount(player.stats, skill))
                 paid == [player.stats EXCEPT !.mp = @ - skill.mp_cost]
             IN /\ skill.skill_type = "buff"
                     => /\ enemy'.stats = enemy.stats
                        /\ AddedByName(paid, player'.stats,
                                StatusEffect(skill.name, "stat_mod", "attack",
                                             amount, skill.duration))
                /\ skill.skill_type = "debuff"
                     => /\ player'.stats = paid
                        /\ AddedByName(enemy.stats, enemy'.stats,
                                StatusEffect(skill.name, "stat_mod", "attack",
                                             0 - amount, skill.duration))]_vars

\* right after a debuff whose effect_amount of 0 was raised to 1, cast by a
\* player who had buffed themself before
C26_Witness ==
    /\ pc = "enemy_turn" /\ choice = "skills" /\ input = "2"
    /\ effect_amount(player.stats, player.skills[2]) = 0
    /\ HasEffectNamed(player.stats, "Battle Cry")
    /\ player.stats.status_effects[FirstEffectNamed(player.stats, "Battle Cry")].power = 1
    /\ HasEffectNamed(enemy.stats, "Intimidate")
    /\ enemy.stats.status_effects[FirstEffectNamed(enemy.stats, "Intimidate")].power = 0 - 1
    /\ Pools(enemy.stats) = Pools(start.enemy.stats)

\* C30: whenever use_skill returns the failure outcome (no damage value, so
\* the turn is not consumed), the caster's mp and all other state of caster
\* and target are unchanged, whatever the skill_type of the chosen skill.
C30_FailedSkillChangesNothing ==
    [][(/\ pc = "handle_skills" /\ ValidSkillChoice(input')
        /\ \A m \in SkillVariance :
              use_skill(player.stats, enemy.stats, ChosenSkill(input'), m).none)
          => /\ pc' = "loop"
             /\ player' = player
             /\ enemy' = enemy]_vars

\* C27: re-applying an effect whose name the container already holds, when the
\* new effect is not DamageOverTime (a repeated buff, debuff or stun), leaves
\* a single entry of that name whose duration is max(remaining, new) and whose
\* power, effect_type and stat_affected are unchanged, nothing else changing:
\* the modifiers on attack and speed do not grow with repeated casts.
C27_NonDotReapplyRefreshesOnly ==
    [][(/\ call'.op = "add_status_effect"
        /\ call'.effect.effect_type # "damage_over_time"
        /\ HasEffectNamed(s, call'.effect.name))
          => LET new == call'.effect
                 i == FirstEffectNamed(s, new.name)
                 existing == s.status_effects[i]
             IN /\ Cardinality(EntriesNamed(s', new.name)) = 1
                /\ s' = [s EXCEPT !.status_effects[i].duration
                                     = Max(existing.duration, new.duration)]
                /\ s'.status_effects[i].power = existing.power
                /\ s'.status_effects[i].effect_type = existing.effect_type
                /\ s'.status_effects[i].stat_affected = existing.stat_affected
                /\ get_stat_modifier(s', "attack") = get_stat_modifier(s, "attack")
                /\ get_stat_modifier(s', "speed") = get_stat_modifier(s, "speed")]_vars

\* a buff of power 1 was cast again with a larger power and a longer duration
\* on a stunned bearer: one entry, the old power, the new duration
C27_Witness ==
    /\ call.op = "add_status_effect"
    /\ call.effect.name = "Battle Cry"
    /\ call.effect.power = MaxPower - 1
    /\ call.effect.duration = MaxDuration
    /\ Cardinality(EntriesNamed(s, "Battle Cry")) = 1
    /\ PowerOf(s, "Battle Cry", "attack") = 1
    /\ s.status_effects[FirstEffectNamed(s, "Battle Cry")].duration = MaxDuration
    /\ is_stunned(s)

\* C28: every StatusEffect held in a Stats container has duration > 0 in every
\* state between operations (after add_status_effect returns and after
\* tick_status_effects returns), for every effect a skill can create, those of
\* skills declared with the default duration of 0 included.
C28_HeldEffectsHavePositiveDuration ==
    \A i \in 1..Len(s.status_effects) : s.status_effects[i].duration > 0

\* C29: the resource primitives keep the pools in range for every integer
\* argument, negative and zero included: after any sequence of calls on a
\* Stats that starts with 0 <= hp <= max_hp and 0 <= mp <= max_mp, both
\* bounds still hold.
C29_PoolsInRangeForEveryArgument == PoolsInRange(s)

\* the player left through a successful Flee
Fled == choice = "run" /\ draw < FleeThreshold

\* the three results of C31: True only with the enemy at hp 0 and the player
\* alive, False only after a Flee or with the player at hp 0, and False when
\* both combatants are at hp 0
ResultMatchesFinalState ==
    pc = "done"
        => /\ result \in {"True", "False"}
           /\ result = "True" => (enemy.stats.hp = 0 /\ player.stats.hp > 0)
           /\ result = "False" => (Fled \/ player.stats.hp = 0)
           /\ (enemy.stats.hp = 0 /\ player.stats.hp = 0) => result = "False"

\* a combatant is at hp 0 or run_combat has returned
OutcomeDetermined ==
    ~is_alive(player.stats) \/ ~is_alive(enemy.stats) \/ pc = "done"

\* once the outcome is determined no attack, skill, item or tick changes a
\* combatant (the rewards of _handle_victory are no combat action)
NoMutationAfterOutcome ==
    [][(OutcomeDetermined /\ pc # "handle_victory")
          => (player' = player /\ enemy' = enemy)]_vars

\* C31: run_combat's result matches the final state and terminal states are
\* exclusive: True only when enemy hp = 0 and player hp > 0, False only when
\* the player fled or player hp = 0, False when both combatants are at hp 0
\* after a tick, and no combatant state is mutated by a combat action (attack,
\* skill, item, tick) after the outcome is determined.
C31_ResultFinalAndFrozen ==
    /\ []ResultMatchesFinalState
    /\ NoMutationAfterOutcome

\* C32: from level 1 with exp 0, when every gain_exp grant is below 100, after
\* every gain_exp call exp < level * 100: the player never holds enough exp for
\* a level-up that has not been applied, although a level-up never reduces exp.
C32_NoPendingLevelUp == s.exp < s.level * 100

\* three grants of 99: level 3 with all 297 exp kept, 3 short of the next level
C32_Witness ==
    /\ call.op = "gain_exp" /\ call.amount = 99
    /\ s.level = 3 /\ s.exp = 297

====
